---------------------------- MODULE Spec2Model ----------------------------
(***************************************************************************)
(* Model of the catalogue pipeline of large-language-models-for-portuguese *)
(*   src/from_html.py : cell normalisation and record extraction           *)
(*   src/main.py      : metadata tree loading, conflict-checked merge and  *)
(*                      schema validation                                  *)
(*                                                                         *)
(* Python strings are sequences of characters, each character a TLA+       *)
(* string; the non-ASCII characters of the source are written "GE" (the    *)
(* at-least glyph), "LE" (the at-most glyph) and "a_acute".  Python values *)
(* are tagged records [t |-> tag, v |-> payload]; a dict is a function     *)
(* from keys (TLA+ strings) to values.                                     *)
(***************************************************************************)
EXTENDS Integers, Sequences, FiniteSets, TLC

VARIABLES field, cell, value,
          data, verdict,
          tree, loaded, outcome, handed, before, runs,
          rows, idx_map, idx, disk, status

normVars == <<field, cell, value>>
validVars == <<data, verdict>>
treeVars == <<tree, loaded, outcome, handed, before, runs>>
extractVars == <<rows, idx_map, idx, disk, status>>
vars == <<field, cell, value, data, verdict,
          tree, loaded, outcome, handed, before, runs,
          rows, idx_map, idx, disk, status>>

----------------------------------------------------------------------------
(* Bounds of the model *)

\* longest cell text, counted in tokens of the field's vocabulary
MaxParts == 2
\* number of source rows of one extraction run
MaxRows == 2
\* number of times a loaded tree is resolved
MaxRuns == 2
\* longest generated date string, in characters
MaxDateLen == 2
\* number of variant directories under a model directory
MaxVariants == 2

----------------------------------------------------------------------------
(* Python values *)

None == [t |-> "none", v |-> <<>>]
Str(s) == [t |-> "str", v |-> s]
Bool(b) == [t |-> "bool", v |-> b]
List(xs) == [t |-> "list", v |-> xs]
Dict(d) == [t |-> "dict", v |-> d]
Raise(e) == [t |-> "raise", v |-> e]
Idle == [t |-> "idle", v |-> <<>>]

EmptyDict == [k \in {} |-> None]

\* Python truthiness of a value
Truthy(x) ==
  CASE x.t = "none" -> FALSE
    [] x.t = "str" -> x.v # <<>>
    [] x.t = "bool" -> x.v
    [] x.t = "list" -> x.v # <<>>
    [] x.t = "dict" -> DOMAIN x.v # {}
    [] OTHER -> TRUE

\* d1 | d2 on dicts
Merge(d1, d2) ==
  [k \in DOMAIN d1 \cup DOMAIN d2 |-> IF k \in DOMAIN d2 THEN d2[k] ELSE d1[k]]

\* d with key k set to x: d[k] = x
With(d, k, x) == Merge(d, [j \in {k} |-> x])

\* {k: v for k, v in d.items() if k != key}
Without(d, key) == [k \in DOMAIN d \ {key} |-> d[k]]

----------------------------------------------------------------------------
(* Python str methods, on sequences of characters *)

Range(s) == {s[i] : i \in DOMAIN s}

\* the code points of the characters (the double quote,
\* the backslash and the backtick are written QUOTE, BACKSLASH and BACKTICK)
Ascii ==
  <<" ", "!", "QUOTE", "#", "$", "%", "&", "'", "(", ")", "*", "+", ",", "-", ".", "/",
    "0", "1", "2", "3", "4", "5", "6", "7", "8", "9", ":", ";", "<", "=", ">", "?",
    "@", "A", "B", "C", "D", "E", "F", "G", "H", "I", "J", "K", "L", "M", "N", "O",
    "P", "Q", "R", "S", "T", "U", "V", "W", "X", "Y", "Z", "[", "BACKSLASH", "]", "^", "_",
    "BACKTICK", "a", "b", "c", "d", "e", "f", "g", "h", "i", "j", "k", "l", "m", "n", "o",
    "p", "q", "r", "s", "t", "u", "v", "w", "x", "y", "z", "{", "|", "}", "~">>

CodePoint(c) ==
  IF \E i \in DOMAIN Ascii : Ascii[i] = c
  THEN 31 + CHOOSE i \in DOMAIN Ascii : Ascii[i] = c
  ELSE IF c = "a_acute" THEN 225 ELSE IF c = "LE" THEN 8804 ELSE 8805

\* the lower-case form of an upper-case ASCII letter
LowerChar(c) ==
  IF CodePoint(c) \in 65..90 THEN Ascii[CodePoint(c) + 32 - 31] ELSE c

\* str.lower()
Lower(s) == [i \in DOMAIN s |-> LowerChar(s[i])]

\* s[i:] and s[:i] with 0-based Python indices
From(s, i) == SubSeq(s, i + 1, Len(s))
Upto(s, i) == SubSeq(s, 1, i)

\* s.startswith(p)
StartsWith(s, p) == Len(p) <= Len(s) /\ Upto(s, Len(p)) = p

\* s.endswith(p)
EndsWith(s, p) == Len(p) <= Len(s) /\ From(s, Len(s) - Len(p)) = p

\* s.find(p): the least 0-based index at which p occurs in s, or -1
Find(s, p) ==
  LET hits == {i \in 0..(Len(s) - Len(p)) : SubSeq(s, i + 1, i + Len(p)) = p}
  IN IF hits = {} THEN -1 ELSE CHOOSE i \in hits : \A j \in hits : i <= j

\* p in s
Contains(s, p) == Find(s, p) # -1

\* s.lstrip(chars)
RECURSIVE LStrip(_, _)
LStrip(s, chars) ==
  IF s # <<>> /\ Head(s) \in chars THEN LStrip(Tail(s), chars) ELSE s

\* s.rstrip(chars)
RECURSIVE RStrip(_, _)
RStrip(s, chars) ==
  IF s # <<>> /\ s[Len(s)] \in chars THEN RStrip(Upto(s, Len(s) - 1), chars) ELSE s

Whitespace == {" "}

\* s.strip()
Strip(s) == RStrip(LStrip(s, Whitespace), Whitespace)

\* s.split(sep): a sequence of strings
RECURSIVE Split(_, _)
Split(s, sep) ==
  LET i == Find(s, sep)
  IN IF i = -1 THEN <<s>>
     ELSE <<Upto(s, i)>> \o Split(From(s, i + Len(sep)), sep)

\* the concatenation of a sequence of strings
RECURSIVE Concat(_)
Concat(ss) == IF ss = <<>> THEN <<>> ELSE Head(ss) \o Concat(Tail(ss))

----------------------------------------------------------------------------
(* String literals of the source *)

s_unknown == <<"(", "?", ")">>
s_confidencial == <<"(", "c", "o", "n", "f", "i", "d", "e", "n", "c", "i", "a", "l", ")">>
s_dash == <<"-">>
s_futuro_paren == <<"(", "f", "u", "t", "u", "r", "o", ")">>
s_future == <<"f", "u", "t", "u", "r", "e">>
s_proprietaria == <<"p", "r", "o", "p", "r", "i", "e", "t", "a_acute", "r", "i", "a">>
s_proprietary == <<"p", "r", "o", "p", "r", "i", "e", "t", "a", "r", "y">>
s_and == <<" ", "e", " ">>
s_ge == <<"GE">>
s_le == <<"LE">>
s_comma == <<",">>
s_sim == <<"s", "i", "m">>
s_paga == <<"p", "a", "g", "a">>
s_futuro == <<"f", "u", "t", "u", "r", "o">>
s_talvez == <<"t", "a", "l", "v", "e", "z">>
s_Portugal == <<"P", "o", "r", "t", "u", "g", "a", "l">>
s_Brasil == <<"B", "r", "a", "s", "i", "l">>
s_Galiza == <<"G", "a", "l", "i", "z", "a">>
s_ptPT == <<"p", "t", "-", "P", "T">>
s_ptBR == <<"p", "t", "-", "B", "R">>
s_glES == <<"g", "l", "-", "E", "S">>
s_strict == <<"s", "t", "r", "i", "c", "t">>
s_possibly_later == <<"p", "o", "s", "s", "i", "b", "l", "y", "_", "l", "a", "t", "e", "r">>
s_possibly_earlier == <<"p", "o", "s", "s", "i", "b", "l", "y", "_", "e", "a", "r", "l", "i", "e", "r">>

----------------------------------------------------------------------------
(* src/from_html.py: the field normaliser *)

\* A table cell: its text content and its <a> elements, each with its text
\* and its href attribute (None when the attribute is absent).
Link(text, href) == [text |-> text, href |-> href]
Cell(text, links) == [text_content |-> text, links |-> links]

NameAndUrlItem(name, url) == Dict([k \in {"name", "url"} |-> IF k = "name" THEN Str(name) ELSE url])

RECURSIVE LinkItems(_)
LinkItems(links) ==
  IF links = <<>> THEN <<>>
  ELSE LET a == Head(links)
           name == Strip(a.text)
           url == a.href
       IN (IF name # <<>> \/ Truthy(url) THEN <<NameAndUrlItem(name, url)>> ELSE <<>>)
          \o LinkItems(Tail(links))

extract_links(c) == List(LinkItems(c.links))

VarietyCodes == [k \in {s_Portugal, s_Brasil, s_Galiza} |->
                   IF k = s_Portugal THEN s_ptPT ELSE IF k = s_Brasil THEN s_ptBR ELSE s_glES]

AvailabilityFields == {"weight_availability", "public_api_availability", "online_chat_availability"}

parse_language_varieties(text_content) ==
  LET varieties == Split(text_content, s_and)
  IN IF varieties = <<s_unknown>> \/ varieties = <<<<>>>> THEN None
     ELSE IF \E i \in DOMAIN varieties : varieties[i] \notin DOMAIN VarietyCodes
          THEN Raise("KeyError")
          ELSE List([i \in DOMAIN varieties |-> Str(VarietyCodes[varieties[i]])])

CutOff(date, type) == Dict([k \in {"date", "type"} |-> IF k = "date" THEN Str(date) ELSE Str(type)])

parse_knowledge_cutoff(text_content) ==
  IF text_content = s_unknown THEN None
  ELSE IF StartsWith(text_content, s_ge)
       THEN CutOff(Strip(LStrip(text_content, {"GE", " "})), s_possibly_later)
  ELSE IF StartsWith(text_content, s_le)
       THEN CutOff(Strip(LStrip(text_content, {"LE", " "})), s_possibly_earlier)
  ELSE CutOff(text_content, s_strict)

AvailabilityDict(available_now, planned, url) ==
  Dict([k \in {"available_now", "planned", "url"} |->
          IF k = "available_now" THEN available_now
          ELSE IF k = "planned" THEN planned ELSE url])

\* ("futuro" in text or "talvez" in text) or None
PlannedOf(text) ==
  IF Contains(text, s_futuro) \/ Contains(text, s_talvez) THEN Bool(TRUE) ELSE None

parse_availability(c, text_content) ==
  LET a == c.links
      url == IF a # <<>> THEN a[1].href ELSE None
      text == IF a # <<>> THEN Lower(Strip(a[1].text)) ELSE Lower(text_content)
  IN AvailabilityDict(Bool(Contains(text, s_sim) \/ Contains(text, s_paga)),
                      PlannedOf(text), url)

parse_special_field(f, c) ==
  LET text_content == Strip(c.text_content)
  IN IF f = "language_varieties" THEN parse_language_varieties(text_content)
     ELSE IF f = "license" /\ Lower(text_content) = s_proprietaria THEN Str(s_proprietary)
     ELSE IF f = "knowledge_cutoff" THEN parse_knowledge_cutoff(text_content)
     ELSE IF f \in {"training_data", "origin"} THEN extract_links(c)
     ELSE IF f = "release_date" /\ text_content = s_futuro_paren THEN Str(s_future)
     ELSE IF f \in AvailabilityFields THEN parse_availability(c, text_content)
     ELSE IF text_content \in {s_unknown, s_confidencial, s_dash} THEN Str(<<>>)
     ELSE Str(text_content)


----------------------------------------------------------------------------
(* src/main.py: the schema *)

Digit == {"0", "1", "2", "3", "4", "5", "6", "7", "8", "9"}

AllDigits(s) == \A i \in DOMAIN s : s[i] \in Digit

\* a full match of \d{4}(-\d{2}(-\d{2})?)?
DateForm(s) ==
  /\ Len(s) \in {4, 7, 10}
  /\ AllDigits(SubSeq(s, 1, 4))
  /\ Len(s) >= 7 => s[5] = "-" /\ AllDigits(SubSeq(s, 6, 7))
  /\ Len(s) = 10 => s[8] = "-" /\ AllDigits(SubSeq(s, 9, 10))

\* The pattern ^(\d{4}(-\d{2}(-\d{2})?)?)?|(future)$ is searched for in the
\* string.  It is an alternation of two branches: the first is anchored at
\* the start only and matches a prefix that is empty or a date; the second
\* is anchored at the end only and matches the suffix "future".
FlexibleDatePattern(s) ==
  \/ \E n \in 0..Len(s) : n = 0 \/ DateForm(Upto(s, n))
  \/ EndsWith(s, s_future)

\* a full match of \d+(\.\d+)?[MBT]
SizeForm(s) ==
  /\ Len(s) >= 2
  /\ s[Len(s)] \in {"M", "B", "T"}
  /\ LET num == Upto(s, Len(s) - 1)
         parts == Split(num, <<".">>)
     IN /\ Len(parts) \in {1, 2}
        /\ \A i \in DOMAIN parts : parts[i] # <<>> /\ AllDigits(parts[i])

\* The pattern ^(\d+(\.\d+)?[MBT])?$: both anchors bind the one branch.
ModelSizePattern(s) == s = <<>> \/ SizeForm(s)

IsNone(x) == x.t = "none"
IsStr(x) == x.t = "str"
IsBool(x) == x.t = "bool"
IsList(x) == x.t = "list"
IsDict(x) == x.t = "dict"

FlexibleDate(x) == IsStr(x) /\ FlexibleDatePattern(x.v)
NonEmptyStr(x) == IsStr(x) /\ Len(x.v) >= 1
ModelSize(x) == IsStr(x) /\ ModelSizePattern(x.v)

\* the value of field k of d, with the default of a field that has one
GetOr(d, k, default) == IF k \in DOMAIN d THEN d[k] ELSE default

\* Availability.validate_planned: TRUE when it raises
validate_planned(available_now, planned) == available_now.v /\ ~IsNone(planned)

\* validate_url testing "url is None" in place of "not url"
validate_url_none_only(available_now, url) == available_now.v /\ IsNone(url)

\* Availability.validate_url: TRUE when it raises
validate_url(available_now, url) == available_now.v /\ ~Truthy(url)

\* Availability.model_validate accepts x
Availability(x) ==
  /\ IsDict(x)
  /\ DOMAIN x.v \subseteq {"available_now", "url", "planned"}
  /\ "available_now" \in DOMAIN x.v
  /\ LET available_now == x.v["available_now"]
         url == GetOr(x.v, "url", None)
         planned == GetOr(x.v, "planned", None)
     IN /\ IsBool(available_now)
        /\ IsNone(url) \/ IsStr(url)
        /\ IsNone(planned) \/ IsBool(planned)
        /\ ~validate_planned(available_now, planned)
        /\ ~validate_url(available_now, url)

CutOffTypes == {s_strict, s_possibly_earlier, s_possibly_later, <<>>}

\* CutOffDate.validate_combination: TRUE when it raises
validate_combination(date, type) ==
  \/ date = s_future
  \/ date # <<>> /\ type = <<>>
  \/ date = <<>> /\ type # <<>>

\* CutOffDate.model_validate accepts x
CutOffDate(x) ==
  /\ IsDict(x)
  /\ DOMAIN x.v = {"date", "type"}
  /\ FlexibleDate(x.v["date"])
  /\ IsStr(x.v["type"]) /\ x.v["type"].v \in CutOffTypes
  /\ ~validate_combination(x.v["date"].v, x.v["type"].v)

\* NameAndUrl.model_validate accepts x
NameAndUrl(x) ==
  /\ IsDict(x)
  /\ DOMAIN x.v = {"name", "url"}
  /\ NonEmptyStr(x.v["name"])
  /\ IsStr(x.v["url"])

ListOf(x, Elem(_)) == IsList(x) /\ \A i \in DOMAIN x.v : Elem(x.v[i])

VarietyLiteral(x) == IsStr(x) /\ x.v \in {s_ptBR, s_ptPT, s_glES}

ModelFields ==
  {"name", "url", "language_varieties", "release_date", "license", "size",
   "model_id", "base_model", "origin", "training_data", "knowledge_cutoff",
   "weight_availability", "public_api_availability", "online_chat_availability"}

\* the annotation of field k of LanguageModel accepts x
FieldAccepts(k, x) ==
  CASE k = "name" -> NonEmptyStr(x)
    [] k = "url" -> IsStr(x)
    [] k = "language_varieties" -> ListOf(x, VarietyLiteral)
    [] k = "release_date" -> FlexibleDate(x)
    [] k = "license" -> IsStr(x)
    [] k = "size" -> ModelSize(x)
    [] k = "model_id" -> IsStr(x)
    [] k = "base_model" -> IsStr(x)
    [] k = "origin" -> ListOf(x, NameAndUrl)
    [] k = "training_data" -> ListOf(x, NameAndUrl)
    [] k = "knowledge_cutoff" -> CutOffDate(x)
    [] k \in AvailabilityFields -> Availability(x)

\* LanguageModel.model_validate(d): the fields in error (extra="forbid", every
\* field required, each checked against its annotation); d is accepted when
\* there are none
model_errors(d) ==
  (DOMAIN d \ ModelFields)
  \cup (ModelFields \ DOMAIN d)
  \cup {k \in ModelFields \cap DOMAIN d : ~FieldAccepts(k, d[k])}

Accepted == [ok |-> TRUE, errors |-> {}]
Rejected(errs) == [ok |-> FALSE, errors |-> errs]
NoVerdict == [ok |-> FALSE, errors |-> {"(not validated)"}]

model_validate(d) ==
  LET errs == model_errors(d) IN IF errs = {} THEN Accepted ELSE Rejected(errs)


----------------------------------------------------------------------------
(* The forest on disk: the directories under the models directory, each a   *)
(* path (a sequence of names) from it, and the metadata.toml files, each    *)
(* the dict it holds, by the path of its directory                          *)

EmptyDisk == [dirs |-> {<<>>}, files |-> [p \in {} |-> EmptyDict]]

\* a <= b on strings
RECURSIVE StrLeq(_, _)
StrLeq(a, b) ==
  IF a = <<>> THEN TRUE
  ELSE IF b = <<>> THEN FALSE
  ELSE IF Head(a) = Head(b) THEN StrLeq(Tail(a), Tail(b))
  ELSE CodePoint(Head(a)) < CodePoint(Head(b))

\* sorted(names, key=lambda f: f.lower())
RECURSIVE SortedByLower(_)
SortedByLower(names) ==
  IF names = {} THEN <<>>
  ELSE LET first == CHOOSE n \in names : \A m \in names : StrLeq(Lower(n), Lower(m))
       IN <<first>> \o SortedByLower(names \ {first})

\* the names of the subdirectories of directory p
Subdirs(d, p) == {q[Len(q)] : q \in {r \in d.dirs : Len(r) = Len(p) + 1 /\ Upto(r, Len(p)) = p}}

\* the node value holding a list of child nodes
Nodes(children) == [t |-> "nodes", v |-> children]

\* "result or None": None is the empty dict here, the one falsy result
RECURSIVE parse_metadata_tree(_, _)
parse_metadata_tree(d, directory) ==
  LET result == IF directory \in DOMAIN d.files THEN d.files[directory] ELSE EmptyDict
      subdirs == SortedByLower(Subdirs(d, directory))
      parsed == [i \in DOMAIN subdirs |-> parse_metadata_tree(d, Append(directory, subdirs[i]))]
      children == SelectSeq(parsed, LAMBDA child : DOMAIN child # {})
  IN IF children # <<>> THEN Merge(result, [k \in {"children"} |-> Nodes(children)])
     ELSE result

----------------------------------------------------------------------------
(* src/main.py: the conflict-checked merge *)

\* how a call of check_metadata_tree ends
Ok == [kind |-> "ok", keys |-> {}, node |-> None]
KeyError(k) == [kind |-> "KeyError", keys |-> {k}, node |-> None]
AttributeError == [kind |-> "AttributeError", keys |-> {}, node |-> None]
MissingName == [kind |-> "ValueError: Missing name", keys |-> {}, node |-> None]
DuplicateKeys(keys, name) == [kind |-> "ValueError: DUPLICATE KEYS", keys |-> keys, node |-> name]
ValidationError(errs) == [kind |-> "ValidationError", keys |-> errs, node |-> None]
NotRun == [kind |-> "not run", keys |-> {}, node |-> None]

\* the validated LanguageModel stored in a leaf
FullModel(d) == [t |-> "model", v |-> d]

\* the tree as the call leaves it, how the call ended, and the candidates it
\* handed to the validator, each with the path (child indices) of its leaf
Result(t, o, h) == [tree |-> t, outcome |-> o, handed |-> h]

Candidate(path, d) == [path |-> path, data |-> d]

\* tree.get("children", [])
ChildrenOf(t) == IF "children" \in DOMAIN t THEN t["children"].v ELSE <<>>

\* check_leaf writing the merged data into the leaf: tree.update(data)
check_leaf_updates_node(t, parent_data, path) ==
  LET d == Merge(parent_data, Without(t, "children"))
  IN IF "name" \notin DOMAIN d THEN Result(t, KeyError("name"), <<>>)
     ELSE IF "name" \notin DOMAIN t THEN Result(t, MissingName, <<>>)
     ELSE LET r == model_validate(d)
          IN IF r.ok
             THEN Result(With(Merge(t, d), "full_model", FullModel(d)), Ok, <<Candidate(path, d)>>)
             ELSE Result(t, ValidationError(r.errors), <<Candidate(path, d)>>)

\* the leaf branch: lines 113-119
check_leaf(t, parent_data, path) ==
  LET d == Merge(parent_data, Without(t, "children"))
  IN IF "name" \notin DOMAIN d THEN Result(t, KeyError("name"), <<>>)
     ELSE IF "name" \notin DOMAIN t THEN Result(t, MissingName, <<>>)
     ELSE LET r == model_validate(d)
          IN IF r.ok
             THEN Result(With(t, "full_model", FullModel(d)), Ok, <<Candidate(path, d)>>)
             ELSE Result(t, ValidationError(r.errors), <<Candidate(path, d)>>)

\* the data a child is checked against: line 122
child_data(parent_data, child) == Merge(parent_data, Without(child, "children"))

\* line 123
duplicate_keys(parent_data, child) == (DOMAIN parent_data \cap DOMAIN child) \ {"name"}

RECURSIVE check_metadata_tree(_, _, _)
RECURSIVE check_children(_, _, _, _)

\* the loop over the children from the i-th on: lines 121-127
check_children(t, parent_data, path, i) ==
  LET children == ChildrenOf(t)
  IN IF i > Len(children) THEN Result(t, Ok, <<>>)
     ELSE LET child == children[i]
              p_data == child_data(parent_data, child)
              dup == duplicate_keys(parent_data, child)
          IN IF dup # {}
             THEN Result(t, DuplicateKeys(dup, GetOr(t, "name", None)), <<>>)
             ELSE LET r == check_metadata_tree(child, p_data, Append(path, i))
                      t2 == With(t, "children", Nodes([children EXCEPT ![i] = r.tree]))
                  IN IF r.outcome.kind # "ok" THEN Result(t2, r.outcome, r.handed)
                     ELSE LET rest == check_children(t2, parent_data, path, i + 1)
                          IN Result(rest.tree, rest.outcome, r.handed \o rest.handed)

check_metadata_tree(t, parent_data, path) ==
  IF ChildrenOf(t) = <<>> THEN check_leaf(t, parent_data, path)
  ELSE check_children(t, parent_data, path, 1)

\* check_metadata_tree(tree): parent_data is None and becomes {}
check_root(t) ==
  IF DOMAIN t = {} THEN Result(t, AttributeError, <<>>)
  ELSE check_metadata_tree(t, EmptyDict, <<>>)

----------------------------------------------------------------------------
(* src/from_html.py: the record extractor *)

\* toml.dumps followed by tomllib.load: a key whose value is None is not
\* written, in a table and in the tables nested in it; every other value
\* reads back as it was written
RECURSIVE TomlRoundTrip(_)
TomlRoundTrip(x) ==
  IF IsDict(x)
  THEN Dict([k \in {j \in DOMAIN x.v : ~IsNone(x.v[j])} |-> TomlRoundTrip(x.v[k])])
  ELSE IF IsList(x) THEN List([i \in DOMAIN x.v |-> TomlRoundTrip(x.v[i])])
  ELSE x

\* base_dir / m: joining an empty name gives the directory itself
PathJoin(p, name) == IF name = <<>> THEN p ELSE Append(p, name)

\* Path.mkdir(parents=True, exist_ok=True)
Mkdir(d, p) == [d EXCEPT !.dirs = @ \cup {Upto(p, n) : n \in 0..Len(p)}]

\* writing metadata.toml in directory p
WriteMetadata(d, p, content) ==
  [d EXCEPT !.files = Merge(@, [q \in {p} |-> TomlRoundTrip(Dict(content)).v])]

\* lines 125-129: one child record per id
RECURSIVE write_children(_, _, _)
write_children(d, base_dir, models) ==
  IF models = <<>> THEN d
  ELSE LET m == Head(models)
           subdir == PathJoin(base_dir, m)
       IN write_children(
            WriteMetadata(Mkdir(d, subdir), subdir, [k \in {"model_id"} |-> Str(m)]),
            base_dir, Tail(models))

\* [m.strip() for m in value.split(",")]
ModelIds(v) == LET parts == Split(v, s_comma) IN [i \in DOMAIN parts |-> Strip(parts[i])]

\* how the loop over the row's fields leaves the disk and the row's data,
\* and whether a normalisation raised
FieldsResult(d, dat, raised) == [disk |-> d, data |-> dat, raised |-> raised]

\* lines 115-131: the fields from the i-th of the header order on
RECURSIVE process_fields(_, _, _, _, _, _)
process_fields(d, dat, row, order, base_dir, i) ==
  IF i > Len(order) THEN FieldsResult(d, dat, FALSE)
  ELSE LET f == order[i]
           c == row[f]
           val == parse_special_field(f, c)
           name_with_link == extract_links(c).v
           dat1 == IF f = "name" /\ name_with_link # <<>>
                   THEN With(dat, "url", name_with_link[1].v["url"])
                   ELSE dat
       IN IF val.t = "raise" THEN FieldsResult(d, dat, TRUE)
          ELSE IF f = "model_id" /\ Contains(val.v, s_comma)
          THEN process_fields(write_children(d, base_dir, ModelIds(val.v)),
                              dat1, row, order, base_dir, i + 1)
          ELSE process_fields(d, With(dat1, f, val), row, order, base_dir, i + 1)

\* line 108: the row is skipped
skipped(row) ==
  LET name_text == Strip(row["name"].text_content)
  IN name_text = <<>> \/ name_text = s_unknown

\* process_row writing the fields read so far when a normalisation raises
process_row_keeps_partial(d, row, order) ==
  LET name_text == Strip(row["name"].text_content)
      base_dir == <<name_text>>
      r == process_fields(Mkdir(d, base_dir), EmptyDict, row, order, base_dir, 1)
  IN IF skipped(row) THEN [disk |-> d, raised |-> FALSE]
     ELSE [disk |-> WriteMetadata(r.disk, base_dir, r.data), raised |-> r.raised]

\* lines 106-136: one row; the disk it leaves and whether it raised
process_row(d, row, order) ==
  LET name_text == Strip(row["name"].text_content)
      base_dir == <<name_text>>
      r == process_fields(Mkdir(d, base_dir), EmptyDict, row, order, base_dir, 1)
  IN IF skipped(row) THEN [disk |-> d, raised |-> FALSE]
     ELSE IF r.raised THEN [disk |-> r.disk, raised |-> TRUE]
     ELSE [disk |-> WriteMetadata(r.disk, base_dir, r.data), raised |-> FALSE]

----------------------------------------------------------------------------
(* Inputs: cell texts, cells and records *)

s_Sim == <<"S", "i", "m">>
s_nao == <<"n", "a", "o">>
s_space == <<" ">>
s_Franca == <<"F", "r", "a", "n", "c", "a">>
s_2023 == <<"2", "0", "2", "3">>
s_2023_01 == <<"2", "0", "2", "3", "-", "0", "1">>
s_2023_01_15 == <<"2", "0", "2", "3", "-", "0", "1", "-", "1", "5">>
s_2023_1 == <<"2", "0", "2", "3", "-", "1">>
s_2023x == <<"2", "0", "2", "3", "x">>
s_soon == <<"s", "o", "o", "n">>
s_not_future == <<"n", "o", "t", " ", "f", "u", "t", "u", "r", "e">>
s_approx == <<"a", "p", "p", "r", "o", "x">>
s_MIT == <<"M", "I", "T">>
s_Apache == <<"A", "p", "a", "c", "h", "e", "-", "2", ".", "0">>
s_Proprietaria == <<"P", "r", "o", "p", "r", "i", "e", "t", "a_acute", "r", "i", "a">>
s_Foo == <<"F", "o", "o">>
s_Bar == <<"B", "a", "r">>
s_Base == <<"B", "a", "s", "e">>
s_VariantX == <<"V", "a", "r", "i", "a", "n", "t", " ", "X">>
s_a == <<"a">>
s_b == <<"b">>
s_7B == <<"7", "B">>
s_http_x == <<"h", "t", "t", "p", ":", "/", "/", "x">>
s_X == <<"X">>

\* all sequences over S of length at most n
SeqsUpTo(S, n) == UNION {[1..k -> S] : k \in 0..n}

\* the words a cell of field f is made of
Vocabulary(f) ==
  CASE f \in AvailabilityFields -> {s_sim, s_Sim, s_paga, s_futuro, s_talvez, s_nao, s_space}
    [] f = "language_varieties" -> {s_Portugal, s_Brasil, s_Galiza, s_Franca, s_and, s_unknown}
    [] f = "knowledge_cutoff" -> {s_ge, s_le, s_space, s_2023_01, s_unknown}
    [] f = "license" -> {s_Proprietaria, s_proprietaria, s_MIT, s_space}
    [] f = "release_date" -> {s_futuro_paren, s_2023, s_dash, s_space}
    [] f = "model_id" -> {s_a, s_b, s_comma, s_space, s_dash}
    [] OTHER -> {s_Foo, s_unknown, s_confidencial, s_dash, s_space}

Texts(f) == {Concat(ts) : ts \in SeqsUpTo(Vocabulary(f), MaxParts)}

Hrefs == {None, Str(s_http_x)}

\* a cell of plain text, or a cell holding one link, or (for the link-list
\* fields) two links
Cells(f) ==
  {Cell(t, <<>>) : t \in Texts(f)}
  \cup {Cell(t, <<Link(t, h)>>) : t \in Texts(f), h \in Hrefs}
  \cup IF f \in {"training_data", "origin"}
       THEN {Cell(t \o u, <<Link(t, h), Link(u, g)>>) :
               t \in {<<>>, s_X}, u \in {<<>>, s_Foo}, h \in Hrefs, g \in Hrefs}
       ELSE {}

\* the canonical fields of the header mapping of parse_html
MappedFields ==
  {"name", "release_date", "license", "language_varieties", "size", "base_model",
   "weight_availability", "model_id", "training_data", "knowledge_cutoff",
   "public_api_availability", "online_chat_availability", "origin"}

----------------------------------------------------------------------------
(* The normaliser applied to one cell *)

IdleCell == Cell(<<>>, <<>>)

InitNorm ==
  /\ field \in MappedFields
  /\ cell \in Cells(field)
  /\ value = Idle
  /\ data = EmptyDict /\ verdict = NoVerdict
  /\ tree = EmptyDict /\ loaded = FALSE /\ outcome = NotRun /\ handed = <<>>
  /\ before = EmptyDict /\ runs = 0
  /\ rows = <<>> /\ idx_map = <<>> /\ idx = 0 /\ disk = EmptyDisk /\ status = "idle"

Normalize ==
  /\ value = Idle
  /\ value' = parse_special_field(field, cell)
  /\ UNCHANGED <<field, cell>>
  /\ UNCHANGED <<validVars, treeVars, extractVars>>

SpecNorm == InitNorm /\ [][Normalize]_vars


----------------------------------------------------------------------------
(* The schema validator applied to one record *)

\* the dict with the given keys, each mapped by val
DictOf(keys, val(_)) == [k \in keys |-> val(k)]

NotAvailable == Dict([k \in {"available_now"} |-> Bool(FALSE)])

BaseValue(k) ==
  CASE k = "name" -> Str(s_Foo)
    [] k = "url" -> Str(s_http_x)
    [] k = "language_varieties" -> List(<<Str(s_ptBR)>>)
    [] k = "release_date" -> Str(s_2023)
    [] k = "license" -> Str(s_MIT)
    [] k = "size" -> Str(s_7B)
    [] k = "model_id" -> Str(s_a)
    [] k = "base_model" -> Str(<<>>)
    [] k = "origin" -> List(<<NameAndUrlItem(s_X, Str(s_http_x))>>)
    [] k = "training_data" -> List(<<>>)
    [] k = "knowledge_cutoff" -> CutOff(s_2023_01, s_strict)
    [] k \in AvailabilityFields -> NotAvailable

\* a record the validator accepts
BaseRecord == DictOf(ModelFields, BaseValue)

DateAlphabet == {"2", "-", "x"}

DateStrings ==
  {<<>>, s_future, s_2023, s_2023_01, s_2023_01_15, s_dash, s_2023_1, s_soon,
   s_2023x, s_not_future}
  \cup SeqsUpTo(DateAlphabet, MaxDateLen)

CutOffValues ==
  {CutOff(d, ty) : d \in {<<>>, s_2023_01, s_future, s_soon},
                   ty \in {<<>>, s_strict, s_possibly_later, s_approx}}
  \cup {None}

\* an Availability table: available_now, and planned and url each absent,
\* null or set
AvailabilityValues ==
  {Dict(Merge(Merge([k \in {"available_now"} |-> Bool(a)], pl), u)) :
     a \in BOOLEAN,
     pl \in {EmptyDict} \cup {[k \in {"planned"} |-> x] : x \in {None, Bool(TRUE), Bool(FALSE)}},
     u \in {EmptyDict} \cup {[k \in {"url"} |-> x] : x \in {None, Str(<<>>), Str(s_http_x)}}}

\* records that differ from BaseRecord in their dates and in one
\* availability field
FieldVariants ==
  {With(With(With(BaseRecord, "release_date", Str(d)), "knowledge_cutoff", c), f, a) :
     d \in DateStrings, c \in CutOffValues, f \in AvailabilityFields, a \in AvailabilityValues}

\* records that differ from BaseRecord in their keys or in a null value
StructVariants ==
  {Without(BaseRecord, k) : k \in ModelFields}
  \cup {With(BaseRecord, k, Str(s_X)) : k \in {"children", "notes"}}
  \cup {With(BaseRecord, k, None) : k \in ModelFields}
  \cup {With(BaseRecord, "size", Str(z)) : z \in {<<>>, s_7B, s_X, <<"7">>, <<"1", ".", "5", "B">>, <<"7", "B", "x">>}}
  \cup {With(BaseRecord, "language_varieties", List(l)) :
          l \in {<<>>, <<Str(s_ptPT), Str(s_glES)>>, <<Str(s_Brasil)>>}}

Records == FieldVariants \cup StructVariants

InitValidate ==
  /\ data \in Records
  /\ verdict = NoVerdict
  /\ field = "name" /\ cell = IdleCell /\ value = Idle
  /\ tree = EmptyDict /\ loaded = FALSE /\ outcome = NotRun /\ handed = <<>>
  /\ before = EmptyDict /\ runs = 0
  /\ rows = <<>> /\ idx_map = <<>> /\ idx = 0 /\ disk = EmptyDisk /\ status = "idle"

Validate ==
  /\ verdict = NoVerdict
  /\ verdict' = model_validate(data)
  /\ UNCHANGED data
  /\ UNCHANGED <<normVars, treeVars, extractVars>>

SpecValidate == InitValidate /\ [][Validate]_vars


----------------------------------------------------------------------------
(* Loading and resolving a forest *)

\* lines 187-188 of main: the tree is loaded from the models directory
Load ==
  /\ ~loaded
  /\ status \in {"idle", "done"}
  /\ tree' = parse_metadata_tree(disk, <<>>)
  /\ loaded' = TRUE
  /\ UNCHANGED <<outcome, handed, before, runs>>
  /\ UNCHANGED <<normVars, validVars, extractVars>>

\* check_metadata_tree(tree), which updates the tree in place
Resolve ==
  /\ loaded
  /\ runs < MaxRuns
  /\ LET r == check_root(tree)
     IN /\ tree' = r.tree
        /\ outcome' = r.outcome
        /\ handed' = r.handed
  /\ before' = tree
  /\ runs' = runs + 1
  /\ UNCHANGED loaded
  /\ UNCHANGED <<normVars, validVars, extractVars>>

s_bar == <<"b", "a", "r">>
s_c == <<"c">>
s_Root == <<"R", "o", "o", "t">>

\* the restriction of dict d to keys
Pick(d, keys) == [k \in keys \cap DOMAIN d |-> d[k]]

FullRecord == With(BaseRecord, "name", Str(s_Base))

\* what the metadata.toml of the models directory may hold
RootMetas == {Pick(FullRecord, {"license"}), With(EmptyDict, "name", Str(s_Root))}

\* what the metadata.toml of a model directory may hold
ModelMetas ==
  {FullRecord,
   Without(FullRecord, "model_id"),
   Pick(FullRecord, ModelFields \ {"model_id", "license"}),
   Pick(FullRecord, ModelFields \ {"model_id", "name"}),
   Pick(FullRecord, {"name"})}

\* what the metadata.toml of a variant directory may hold
VariantMetas ==
  {Pick(FullRecord, {"model_id"}),
   With(Pick(FullRecord, {"model_id"}), "name", Str(s_VariantX)),
   With(With(Pick(FullRecord, {"model_id"}), "name", Str(s_VariantX)), "license", Str(s_Apache)),
   With(EmptyDict, "name", Str(s_VariantX))}

VariantNames == <<s_a, s_b, s_c, s_X>>

\* the directories and files of a choice: meta[p] is the content of the
\* metadata.toml of directory p, or Absent for a directory without one
Absent == [k \in {"(no file)"} |-> None]

DiskOf(meta) ==
  [dirs |-> DOMAIN meta \cup {<<>>},
   files |-> [p \in {q \in DOMAIN meta : meta[q] # Absent} |-> meta[p]]]

\* a model directory Foo with up to MaxVariants variant directories, a model
\* directory bar without any, and the models directory itself
VariantPaths == {<<s_Foo, VariantNames[i]>> : i \in 1..MaxVariants}

Forests ==
  {DiskOf(Merge(Merge(Merge(root, foo), variants), bar)) :
     root \in {[p \in {<<>>} |-> m] : m \in RootMetas \cup {Absent}},
     foo \in {[p \in {<<s_Foo>>} |-> m] : m \in ModelMetas \cup {Absent}},
     variants \in UNION {[ps -> VariantMetas \cup {Absent}] : ps \in SUBSET VariantPaths},
     bar \in {[p \in {} |-> Absent]} \cup {[p \in {<<s_bar>>} |-> m] : m \in ModelMetas \cup {Absent}}}

InitTree ==
  /\ disk \in Forests
  /\ tree = EmptyDict /\ loaded = FALSE /\ outcome = NotRun /\ handed = <<>>
  /\ before = EmptyDict /\ runs = 0
  /\ field = "name" /\ cell = IdleCell /\ value = Idle
  /\ data = EmptyDict /\ verdict = NoVerdict
  /\ rows = <<>> /\ idx_map = <<>> /\ idx = 0 /\ status = "idle"

NextTree == Load \/ Resolve

SpecTree == InitTree /\ [][NextTree]_vars


----------------------------------------------------------------------------
(* The extraction run, followed by loading and resolving what it wrote *)

\* lines 102-136 of from_html.main: the next row of the table
ExtractRow ==
  /\ status = "running"
  /\ idx <= Len(rows)
  /\ LET r == process_row(disk, rows[idx], idx_map)
     IN /\ disk' = r.disk
        /\ IF r.raised
           THEN status' = "aborted" /\ idx' = idx
           ELSE /\ idx' = idx + 1
                /\ status' = IF idx = Len(rows) THEN "done" ELSE "running"
  /\ UNCHANGED <<rows, idx_map>>
  /\ UNCHANGED <<normVars, validVars, treeVars>>

s_a_b == <<"a", ",", " ", "b">>
s_comma_a == <<",", " ", "a">>
s_Portugal_e_Brasil == <<"P", "o", "r", "t", "u", "g", "a", "l", " ", "e", " ", "B", "r", "a", "s", "i", "l">>
s_ge_2023_01 == <<"GE", " ", "2", "0", "2", "3", "-", "0", "1">>

LinkCell(text) == Cell(text, <<Link(text, Str(s_http_x))>>)
TextCell(text) == Cell(text, <<>>)

\* the columns of the table in the order of the mapping of parse_html, and
\* with the model_id column moved before the language_varieties column
HeaderOrders ==
  {<<"name", "release_date", "license", "language_varieties", "size", "base_model",
     "weight_availability", "model_id", "training_data", "knowledge_cutoff",
     "public_api_availability", "online_chat_availability", "origin">>,
   <<"name", "model_id", "release_date", "license", "language_varieties", "size",
     "base_model", "weight_availability", "training_data", "knowledge_cutoff",
     "public_api_availability", "online_chat_availability", "origin">>}

\* a row of cells: its name, model_id and language_varieties cells given,
\* the other cells well-formed
Row(name, model_id, varieties) ==
  [f \in MappedFields |->
     CASE f = "name" -> name
       [] f = "model_id" -> TextCell(model_id)
       [] f = "language_varieties" -> TextCell(varieties)
       [] f = "release_date" -> TextCell(s_2023)
       [] f = "license" -> TextCell(s_MIT)
       [] f = "size" -> TextCell(s_7B)
       [] f = "base_model" -> TextCell(s_dash)
       [] f = "knowledge_cutoff" -> TextCell(s_ge_2023_01)
       [] f \in {"training_data", "origin"} -> LinkCell(s_X)
       [] f \in AvailabilityFields -> TextCell(s_nao)]

RowChoices ==
  {Row(n, m, v) :
     n \in {LinkCell(s_Foo), LinkCell(s_Bar), TextCell(s_unknown)},
     m \in {s_a, s_a_b, s_comma_a},
     v \in {s_Portugal_e_Brasil, s_Franca}}

InitPipe ==
  /\ rows \in UNION {[1..n -> RowChoices] : n \in 1..MaxRows}
  /\ idx_map \in HeaderOrders
  /\ idx = 1 /\ disk = EmptyDisk /\ status = "running"
  /\ tree = EmptyDict /\ loaded = FALSE /\ outcome = NotRun /\ handed = <<>>
  /\ before = EmptyDict /\ runs = 0
  /\ field = "name" /\ cell = IdleCell /\ value = Idle
  /\ data = EmptyDict /\ verdict = NoVerdict

NextPipe == ExtractRow \/ Load \/ Resolve

SpecPipe == InitPipe /\ [][NextPipe]_vars

----------------------------------------------------------------------------
(* Properties of the merge *)

\* a node's own attributes
OwnAttrs(n) == Without(n, "children")

RECURSIVE NodeAt(_, _)
NodeAt(t, path) ==
  IF path = <<>> THEN t ELSE NodeAt(ChildrenOf(t)[Head(path)], Tail(path))

RECURSIVE LeafPaths(_)
LeafPaths(t) ==
  IF ChildrenOf(t) = <<>> THEN {<<>>}
  ELSE UNION {{<<i>> \o q : q \in LeafPaths(ChildrenOf(t)[i])} : i \in DOMAIN ChildrenOf(t)}

\* the first leaf of the depth-first walk
RECURSIVE FirstLeafPath(_)
FirstLeafPath(t) ==
  IF ChildrenOf(t) = <<>> THEN <<>> ELSE <<1>> \o FirstLeafPath(ChildrenOf(t)[1])

\* the union of the own attributes of the nodes on a path, the root's
\* included, a deeper node's value overriding a shallower one's
RECURSIVE PathUnion(_, _)
PathUnion(t, path) ==
  IF path = <<>> THEN OwnAttrs(t)
  ELSE Merge(OwnAttrs(t), PathUnion(ChildrenOf(t)[Head(path)], Tail(path)))

\* the keys other than name that two nodes of a path both define
ConflictKeys(t, path) ==
  {k \in DOMAIN PathUnion(t, path) :
     \E i, j \in 0..Len(path) :
       /\ i < j
       /\ k \in DOMAIN OwnAttrs(NodeAt(t, Upto(path, i)))
       /\ k \in DOMAIN OwnAttrs(NodeAt(t, Upto(path, j)))} \ {"name"}

ConflictFree(t) == \A p \in LeafPaths(t) : ConflictKeys(t, p) = {}

ResolvedOnce == runs = 1 /\ DOMAIN before # {}

\* C1: when a node of a root-to-leaf path and one of its ancestors, the root
\* included, define the same key other than name, resolve fails with the
\* conflict error, which names conflicting keys; when no path has such a
\* key, resolve raises no conflict error.  (Stated for the first path of the
\* walk, which no other failure can come before.)
C1_ConflictReported ==
  ResolvedOnce =>
    LET p == FirstLeafPath(before)
    IN /\ ConflictKeys(before, p) # {} =>
            /\ outcome.kind = "ValueError: DUPLICATE KEYS"
            /\ outcome.keys # {}
            /\ outcome.keys \subseteq ConflictKeys(before, p)
       /\ ConflictFree(before) => outcome.kind # "ValueError: DUPLICATE KEYS"

\* C2: in a conflict-free tree, every candidate handed to the validator is
\* the union of the own attributes of the nodes on the leaf's path, the root
\* included, the deepest name winning, and it has no children key.
C2_CandidateIsPathUnion ==
  (ResolvedOnce /\ ConflictFree(before)) =>
    \A i \in DOMAIN handed :
      /\ handed[i].data = PathUnion(before, handed[i].path)
      /\ "children" \notin DOMAIN handed[i].data

\* C3: at a leaf, resolve fails with "Missing name" exactly when the
\* attributes merged along the path lack name; a leaf that inherits its name
\* is handed to the validator.  (Stated for the first leaf of a conflict-free
\* tree whose root has no attributes of its own.)
C3_MissingNameIffMergedLacksName ==
  (ResolvedOnce /\ ConflictFree(before) /\ DOMAIN OwnAttrs(before) = {}) =>
    LET p == FirstLeafPath(before)
    IN IF "name" \in DOMAIN PathUnion(before, p)
       THEN handed # <<>> /\ handed[1].path = p
       ELSE outcome.kind = "ValueError: Missing name"

\* C10 as stated: resolving leaves the tree as it was.
C10_TreeUnchanged == runs >= 1 => tree = before

\* the candidates the validator accepted
AcceptedCandidates ==
  IF outcome.kind = "ValidationError" THEN Upto(handed, Len(handed) - 1) ELSE handed

\* t with full_model set at the leaf of each candidate
RECURSIVE WithFullModels(_, _)
RECURSIVE SetAt(_, _, _)
SetAt(t, path, d) ==
  IF path = <<>> THEN With(t, "full_model", FullModel(d))
  ELSE With(t, "children",
            Nodes([ChildrenOf(t) EXCEPT ![Head(path)] = SetAt(@, Tail(path), d)]))
WithFullModels(t, cands) ==
  IF cands = <<>> THEN t
  ELSE WithFullModels(SetAt(t, Head(cands).path, Head(cands).data), Tail(cands))

\* C10 as amended: resolving changes the tree only by storing, in each leaf
\* whose candidate the validator accepted, that candidate under full_model;
\* and a tree whose first leaf holds full_model fails validation on that
\* extra key when it is resolved again.
C10_OnlyFullModelStored ==
  (runs >= 1 /\ DOMAIN before # {}) =>
    /\ tree = WithFullModels(before, AcceptedCandidates)
    /\ "full_model" \in DOMAIN NodeAt(before, FirstLeafPath(before)) =>
         outcome.kind = "ValidationError" /\ "full_model" \in outcome.keys

\* a first resolution stored an entity in a leaf
C10_Witness == runs = 1 /\ tree # before /\ outcome.kind = "ok"


----------------------------------------------------------------------------
(* Properties of the extraction run *)

FanOutRow == Row(LinkCell(s_Foo), s_a_b, s_Portugal_e_Brasil)
SingleRow == Row(LinkCell(s_Foo), s_a, s_Portugal_e_Brasil)

\* C4: a row whose model_id is "a, b" is extracted into a base record
\* without model_id and the child records {model_id: a} and {model_id: b},
\* and loading and resolving that forest yields two entities, one per id,
\* each with its model_id and every attribute of the base record; a row
\* with the single model_id "a" keeps it in the base record and yields one
\* entity.
C4_FanOutEndToEnd ==
  (status = "done" /\ runs = 1) =>
    /\ rows = <<FanOutRow>> =>
         /\ "model_id" \notin DOMAIN disk.files[<<s_Foo>>]
         /\ DOMAIN disk.files = {<<s_Foo>>, <<s_Foo, s_a>>, <<s_Foo, s_b>>}
         /\ disk.files[<<s_Foo, s_a>>] = [k \in {"model_id"} |-> Str(s_a)]
         /\ disk.files[<<s_Foo, s_b>>] = [k \in {"model_id"} |-> Str(s_b)]
         /\ outcome.kind = "ok"
         /\ Len(handed) = 2
         /\ handed[1].data = With(disk.files[<<s_Foo>>], "model_id", Str(s_a))
         /\ handed[2].data = With(disk.files[<<s_Foo>>], "model_id", Str(s_b))
    /\ rows = <<SingleRow>> =>
         /\ disk.files[<<s_Foo>>]["model_id"] = Str(s_a)
         /\ DOMAIN disk.files = {<<s_Foo>>}
         /\ outcome.kind = "ok"
         /\ Len(handed) = 1
         /\ handed[1].data = disk.files[<<s_Foo>>]

\* C9 as stated: when a normalisation fails, the forest holds nothing the
\* run wrote.
C9_AbortLeavesNoRecord == status = "aborted" => disk = EmptyDisk

RowName(j) == Strip(rows[j]["name"].text_content)

\* the rows before the failing one that were not skipped
RowsWritten == {j \in 1..(idx - 1) : ~skipped(rows[j])}

\* C9 as amended: when the normalisation of a field of a row fails, the run
\* stops at that row: the base record of every earlier row that was not
\* skipped stays on disk, the failing row's directory exists, the failing
\* row's base record is not written (no metadata.toml in its directory,
\* unless an earlier row of the same name wrote one or the row's model_id
\* list has an empty id), and no directory is made for a later row.
C9_AbortKeepsEarlierRows ==
  status = "aborted" =>
    /\ <<RowName(idx)>> \in disk.dirs
    /\ \A j \in RowsWritten : <<RowName(j)>> \in DOMAIN disk.files
    /\ ( /\ \A j \in RowsWritten : RowName(j) # RowName(idx)
         /\ <<>> \notin Range(ModelIds(Strip(rows[idx]["model_id"].text_content))) )
       => <<RowName(idx)>> \notin DOMAIN disk.files
    /\ \A j \in (idx + 1)..Len(rows) :
         (\A i \in RowsWritten \cup {idx} : RowName(i) # RowName(j))
           => <<RowName(j)>> \notin disk.dirs

\* the second row failed after the first was written and after its own
\* child records were written
C9_Witness ==
  /\ status = "aborted"
  /\ idx = 2
  /\ <<RowName(1)>> \in DOMAIN disk.files
  /\ RowName(1) # RowName(2)
  /\ <<RowName(2), s_a>> \in DOMAIN disk.files

----------------------------------------------------------------------------
(* Properties of the normaliser *)

\* the text the availability rule reads: the first link's text, or the
\* cell's text when it has no link, lower-cased
MarkerText(c) ==
  IF c.links # <<>> THEN Lower(Strip(c.links[1].text)) ELSE Lower(Strip(c.text_content))

\* C5: for an availability cell, available_now is true iff the text contains
\* "sim" or "paga"; planned is true iff the text contains "futuro" or
\* "talvez" and available_now is false, and is null otherwise; so never both
\* are true.
C5_PlannedOnlyWhenNotAvailable ==
  (field \in AvailabilityFields /\ value # Idle) =>
    LET text == MarkerText(cell)
        now == Contains(text, s_sim) \/ Contains(text, s_paga)
        later == Contains(text, s_futuro) \/ Contains(text, s_talvez)
    IN /\ value.v["available_now"] = Bool(now)
       /\ value.v["planned"] = IF later /\ ~now THEN Bool(TRUE) ELSE None
       /\ ~(value.v["available_now"] = Bool(TRUE) /\ value.v["planned"] = Bool(TRUE))

----------------------------------------------------------------------------
(* Properties of the schema validator *)

Validated == verdict # NoVerdict

\* C6: an accepted record has, in each availability field, available_now
\* true only with planned null and url non-empty, and in knowledge_cutoff a
\* date that is empty iff the type is empty and that is not "future".
C6_AcceptedKeepsStructInvariants ==
  (Validated /\ verdict.ok) =>
    /\ \A f \in AvailabilityFields :
         LET a == data[f].v
         IN a["available_now"].v =>
              /\ IsNone(GetOr(a, "planned", None))
              /\ "url" \in DOMAIN a /\ IsStr(a["url"]) /\ a["url"].v # <<>>
    /\ LET c == data["knowledge_cutoff"].v
       IN /\ (c["date"].v = <<>>) <=> (c["type"].v = <<>>)
          /\ c["date"].v # s_future

\* an accepted record that is available now
C6_Witness ==
  /\ Validated /\ verdict.ok
  /\ \E f \in AvailabilityFields : data[f].v["available_now"].v
  /\ data["knowledge_cutoff"].v["date"].v # <<>>

\* C7: release_date is accepted iff the whole string is empty, is "future",
\* or has the form YYYY, YYYY-MM or YYYY-MM-DD.
C7_DatePatternIsWholeString ==
  (Validated /\ "release_date" \in DOMAIN data /\ IsStr(data["release_date"])) =>
    LET d == data["release_date"].v
    IN ("release_date" \notin verdict.errors) <=> (d = <<>> \/ d = s_future \/ DateForm(d))

\* C8: a record with a key outside the canonical fields is rejected; a
\* record missing a canonical field is rejected, except that url and
\* language_varieties may be absent or null.
C8_NullableFieldsOptional ==
  Validated =>
    /\ DOMAIN data \ ModelFields # {} => ~verdict.ok
    /\ (ModelFields \ {"url", "language_varieties"}) \ DOMAIN data # {} => ~verdict.ok
    /\ \A k \in {"url", "language_varieties"} :
         data \in {Without(BaseRecord, k), With(BaseRecord, k, None)} => verdict.ok


=============================================================================
